---- MODULE Spec2Model ----
(***************************************************************************)
(* Model of gloomhaven-diary's scenario dependency graph engine            *)
(* (src/scenario.py): the ScenarioManager aggregate (scenario map, world   *)
(* status, achievement catalog), the linker run by its constructor and the *)
(* two tree builders.                                                      *)
(*                                                                         *)
(* Scenario ids and successor tokens are Python strings; they are modelled *)
(* as sequences of one-character strings so that str.isnumeric() is        *)
(* computed, not assumed.  A Python dict is modelled as a function         *)
(* (scenarios) plus its insertion order (order).  Fields of Scenario that  *)
(* no modelled statement reads (name, aim, difficulty, attempts,           *)
(* description, rewards) are left out of the record.                       *)
(***************************************************************************)
EXTENDS Integers, Sequences, FiniteSets, TLC

VARIABLES
    scenarios,      \* ScenarioManager.scenarios: id -> Scenario
    order,          \* insertion order of the keys of scenarios
    world_status,   \* ScenarioManager.world_status: list of Achievement
    achievements,   \* ScenarioManager.achievements: the catalog
    pc,             \* position of the control flow
    op,             \* name of the last manager call
    arg,            \* argument of the last manager call
    err,            \* exception the last manager call raised, or "none"
    pre,            \* manager state at the start of the last call
    work,           \* render_scenario_tree: the work list of <<id, hop>>
    edges,          \* the tree builders' edges dict: <<from, to>> -> label
    nodes,          \* ids for which tree.node was called
    cur             \* the tree builders' loop position

mgrVars == <<scenarios, order, world_status, achievements>>
callVars == <<op, arg, err, pre>>
renderVars == <<work, edges, nodes, cur>>
vars == <<scenarios, order, world_status, achievements, pc, op, arg, err, pre,
          work, edges, nodes, cur>>

----------------------------------------------------------------------------
(* Bounds *)

\* longest world_status list
MaxWS == 2
\* most achievements and requirements, together, of a scenario given to the
\* manager
MaxAch == 1
\* most successors of a scenario given to the linker
MaxSucc == 2

----------------------------------------------------------------------------
(* Values *)

\* Python's None, as an argument or a label
None == [none |-> TRUE]
\* an id as the argument of a call
IdArg(i) == [key |-> i]

S1 == <<"1">>
S2 == <<"2">>
S3 == <<"3">>
\* a free-text successor ("or" branch) and the empty token of a blank field
FreeText == <<"o", "r">>
Blank == <<>>

Ids == {S1, S2, S3}

Digits == {"0", "1", "2", "3", "4", "5", "6", "7", "8", "9"}

\* str.isnumeric(): non-empty and every character numeric
IsNumeric(t) == Len(t) > 0 /\ \A i \in 1..Len(t) : t[i] \in Digits

AchievementType == {"GROUP", "GLOBAL"}
AchievementStatus == {"OPEN", "CLOSED"}

\* dataclass Achievement; == and hash are over the three fields
Achievement(n, t, s) == [name |-> n, type |-> t, status |-> s]

GoldOpen == Achievement("Gold", "GROUP", "OPEN")
GoldClosed == Achievement("Gold", "GROUP", "CLOSED")
KeyClosed == Achievement("Key", "GLOBAL", "CLOSED")

AchInputs == {GoldOpen, GoldClosed, KeyClosed}

\* dataclass Scenario
Scenario(i, succ, preds, ach, req, pl) ==
    [id |-> i, successors |-> succ, predecessors |-> preds,
     achievements |-> ach, requirements |-> req, played |-> pl]

Range(s) == {s[i] : i \in 1..Len(s)}

SeqsUpTo(S, n) == UNION {[1..k -> S] : k \in 0..n}

Perms(S) == {p \in [1..Cardinality(S) -> S] : Range(p) = S}

----------------------------------------------------------------------------
(* ScenarioManager: pure parts *)

\* ScenarioManager.__all_achievements: list(set(...)) of every scenario's
\* achievements, every scenario's requirements and world_status.  The catalog
\* is a duplicate-free list whose order is that of a Python set; it is
\* modelled as a set.
AllAchievements(scn, ws) ==
    LET granted == UNION {Range(scn[i].achievements) : i \in DOMAIN scn}
        required == UNION {Range(scn[i].requirements) : i \in DOMAIN scn}
    IN (granted \cup required) \cup Range(ws)

\* Scenario(id=successor_id, predecessors={scenario.id}): every other field
\* takes its default
Stub(i, p) == Scenario(i, {}, {p}, <<>>, <<>>, FALSE)

\* The iteration orders a Python set of successors can have: one enumeration
\* of scn[i].successors for every scenario i.
SuccOrders(scn) ==
    {f \in [DOMAIN scn -> UNION {Perms(scn[i].successors) : i \in DOMAIN scn}] :
        \A i \in DOMAIN scn : f[i] \in Perms(scn[i].successors)}

\* First pass of __link_scenarios, the else branch: new_scenarios, as the
\* list of <<successor_id, scenario.id>> in the order appended.
NewScenarios(scn, ord, so) ==
    LET RECURSIVE Inner(_, _)
        Inner(a, s) ==
            IF s = <<>> THEN <<>>
            ELSE (IF IsNumeric(Head(s)) /\ Head(s) \notin DOMAIN scn
                  THEN << <<Head(s), a>> >> ELSE <<>>) \o Inner(a, Tail(s))
        RECURSIVE Outer(_)
        Outer(o) ==
            IF o = <<>> THEN <<>>
            ELSE Inner(Head(o), so[Head(o)]) \o Outer(Tail(o))
    IN Outer(ord)

\* First pass of __link_scenarios, the then branch: every scenario that is a
\* numeric successor of a scenario of the map gets that scenario's id added
\* to its predecessors.
LinkExisting(scn) ==
    [t \in DOMAIN scn |->
        [scn[t] EXCEPT !.predecessors =
            @ \cup {a \in DOMAIN scn : t \in scn[a].successors /\ IsNumeric(t)}]]

\* Second pass of __link_scenarios: self.scenarios[scenario.id] = scenario for
\* each new scenario in list order; a key already inserted keeps its place
\* and takes the new value.
RECURSIVE InsertNew(_, _, _)
InsertNew(scn, ord, new) ==
    IF new = <<>> THEN [scenarios |-> scn, order |-> ord]
    ELSE LET t == Head(new)[1]
             a == Head(new)[2]
         IN InsertNew((t :> Stub(t, a)) @@ scn,
                      IF t \in DOMAIN scn THEN ord ELSE Append(ord, t),
                      Tail(new))

\* ScenarioManager.__link_scenarios
LinkScenarios(scn, ord, so) ==
    InsertNew(LinkExisting(scn), ord, NewScenarios(scn, ord, so))

\* list.remove(x): drops the first element equal to x
RemoveFirst(s, x) ==
    LET i == CHOOSE i \in 1..Len(s) : s[i] = x /\ \A j \in 1..(i - 1) : s[j] # x
    IN SubSeq(s, 1, i - 1) \o SubSeq(s, i + 1, Len(s))

\* The loop of add_world_status: a Python for over the list it removes from.
\* The iterator holds an index; it moves on by one after every element and
\* stops when the index is past the current end.
RECURSIVE EvictLoop(_, _, _)
EvictLoop(ws, i, name) ==
    IF i > Len(ws) THEN ws
    ELSE IF ws[i].name = name
         THEN EvictLoop(RemoveFirst(ws, ws[i]), i + 1, name)
         ELSE EvictLoop(ws, i + 1, name)

\* add_world_status without the eviction loop
AddWorldStatusNoEvict(ws, a) ==
    IF a \in Range(ws) THEN ws ELSE Append(ws, a)

\* ScenarioManager.add_world_status: the list afterwards
AddWorldStatusResult(ws, a) ==
    IF a \in Range(ws) THEN ws
    ELSE Append(EvictLoop(ws, 1, a.name), a)

\* ScenarioManager.add_scenario: the catalog afterwards (append what is not
\* yet in it)
AddScenarioCatalog(cat, s) ==
    (cat \cup Range(s.achievements)) \cup Range(s.requirements)

\* del d[k] on the model of a dict
DictRemove(scn, i) == [k \in DOMAIN scn \ {i} |-> scn[k]]
SeqRemove(s, x) == SelectSeq(s, LAMBDA y : y # x)

----------------------------------------------------------------------------
(* Inputs *)

\* What a blank successors field of the form yields: "".split(",") = [""]
NoSuccessors == {Blank}

\* Scenarios handed to add_scenario and found in the loaded file, manager
\* specification: S1 or S2, granting KeyClosed and requiring GoldClosed, at
\* most MaxAch entries in the two lists together.
MgrIds == {S1, S2}
MgrScenarioInputs ==
    {Scenario(i, NoSuccessors, {}, ar[1], ar[2], FALSE) :
        i \in MgrIds,
        ar \in {x \in SeqsUpTo({KeyClosed}, MaxAch) \X SeqsUpTo({GoldClosed}, MaxAch) :
                  Len(x[1]) + Len(x[2]) <= MaxAch}}

\* Scenarios of the loaded file, linker specification: any of the three ids,
\* up to MaxSucc successor tokens, nothing else set.
LinkTokens == Ids \cup {FreeText}
LinkScenarioInputs ==
    {Scenario(i, s, {}, <<>>, <<>>, FALSE) :
        i \in Ids, s \in {x \in SUBSET LinkTokens : Cardinality(x) <= MaxSucc}}

\* The dicts {scenario["id"]: scenario} over a set of scenarios
MapsOver(inputs, ids) ==
    {m \in [ids -> inputs] : \A i \in ids : m[i].id = i}

NoEdges == <<>>
Idle == [at |-> "idle"]

Snapshot ==
    [scenarios |-> scenarios, order |-> order, world_status |-> world_status,
     achievements |-> achievements]

Call(o, a, e) == op' = o /\ arg' = a /\ err' = e /\ pre' = Snapshot

\* The arguments of ScenarioManager(scenarios, world_status), as from_file
\* builds them, before the constructor's body runs.
InitWith(inputs, idsets, wss) ==
    /\ \E ids \in idsets : \E m \in MapsOver(inputs, ids) : \E o \in Perms(ids) :
          scenarios = m /\ order = o
    /\ world_status \in wss
    /\ achievements = {}
    /\ pc = "raw"
    /\ op = "none" /\ arg = None /\ err = "none"
    /\ pre = [scenarios |-> scenarios, order |-> order,
              world_status |-> world_status, achievements |-> {}]
    /\ work = <<>> /\ edges = NoEdges /\ nodes = {} /\ cur = Idle

Init == InitWith(MgrScenarioInputs, SUBSET MgrIds, SeqsUpTo(AchInputs, MaxWS))

InitLink == InitWith(LinkScenarioInputs, SUBSET Ids, {<<>>})

----------------------------------------------------------------------------
(* ScenarioManager: operations *)

\* ScenarioManager.__init__ on the arguments given
ConstructWith(so) ==
    LET linked == LinkScenarios(scenarios, order, so)
    IN /\ achievements' = AllAchievements(scenarios, world_status)
       /\ scenarios' = linked.scenarios
       /\ order' = linked.order
       /\ UNCHANGED world_status

Construct ==
    /\ pc = "raw"
    /\ \E so \in SuccOrders(scenarios) : ConstructWith(so)
    /\ pc' = "ready"
    /\ Call("__init__", None, "none")
    /\ UNCHANGED renderVars

\* A second construction, on the scenarios and world status of the manager
\* itself (ScenarioManager(manager.scenarios, manager.world_status)): the
\* linker runs again on its own result.
Relink ==
    /\ pc = "ready"
    /\ \E so \in SuccOrders(scenarios) : ConstructWith(so)
    /\ pc' = "ready"
    /\ Call("relink", None, "none")
    /\ UNCHANGED renderVars

\* add_scenario that refreshes the catalog before looking at its argument
AddScenarioRefreshFirst(s) ==
    IF s = None
    THEN /\ achievements' = AllAchievements(scenarios, world_status)
         /\ UNCHANGED <<scenarios, order, world_status>>
    ELSE /\ scenarios' = (s.id :> s) @@ scenarios
         /\ order' = IF s.id \in DOMAIN scenarios THEN order ELSE Append(order, s.id)
         /\ achievements' = AddScenarioCatalog(achievements, s)
         /\ UNCHANGED world_status

\* ScenarioManager.add_scenario
AddScenarioEffect(s) ==
    IF s = None
    THEN UNCHANGED mgrVars
    ELSE /\ scenarios' = (s.id :> s) @@ scenarios
         /\ order' = IF s.id \in DOMAIN scenarios THEN order ELSE Append(order, s.id)
         /\ achievements' = AddScenarioCatalog(achievements, s)
         /\ UNCHANGED world_status

AddScenario ==
    /\ pc = "ready"
    /\ \E s \in MgrScenarioInputs \cup {None} :
          AddScenarioEffect(s) /\ Call("add_scenario", s, "none")
    /\ UNCHANGED <<pc, renderVars>>

\* remove_scenario that drops the removed scenario's own entries from the
\* catalog instead of recomputing it
RemoveScenarioIncremental(i) ==
    IF i \in DOMAIN scenarios
    THEN /\ scenarios' = DictRemove(scenarios, i)
         /\ order' = SeqRemove(order, i)
         /\ achievements' =
               (achievements \ (Range(scenarios[i].achievements)
                                  \cup Range(scenarios[i].requirements)))
               \cup AllAchievements(scenarios', world_status)
         /\ UNCHANGED world_status
         /\ err' = "none"
    ELSE UNCHANGED mgrVars /\ err' = "KeyError"

\* ScenarioManager.remove_scenario: del raises KeyError on an absent key
RemoveScenarioEffect(i) ==
    IF i \in DOMAIN scenarios
    THEN /\ scenarios' = DictRemove(scenarios, i)
         /\ order' = SeqRemove(order, i)
         /\ achievements' = AllAchievements(scenarios', world_status)
         /\ UNCHANGED world_status
         /\ err' = "none"
    ELSE UNCHANGED mgrVars /\ err' = "KeyError"

RemoveScenario ==
    /\ pc = "ready"
    /\ \E i \in MgrIds :
          /\ RemoveScenarioEffect(i)
          /\ op' = "remove_scenario" /\ arg' = IdArg(i) /\ pre' = Snapshot
    /\ UNCHANGED <<pc, renderVars>>

\* ScenarioManager.add_world_status
AddWorldStatusEffect(a) ==
    /\ world_status' = AddWorldStatusResult(world_status, a)
    /\ UNCHANGED <<scenarios, order, achievements>>

AddWorldStatus ==
    /\ pc = "ready"
    /\ \E a \in AchInputs :
          /\ Len(AddWorldStatusResult(world_status, a)) <= MaxWS
          /\ AddWorldStatusEffect(a)
          /\ Call("add_world_status", a, "none")
    /\ UNCHANGED <<pc, renderVars>>

\* ScenarioManager.remove_world_status: list.remove raises ValueError when
\* the value is not in the list
RemoveWorldStatusEffect(a) ==
    IF a \in Range(world_status)
    THEN /\ world_status' = RemoveFirst(world_status, a)
         /\ UNCHANGED <<scenarios, order, achievements>>
         /\ err' = "none"
    ELSE UNCHANGED mgrVars /\ err' = "ValueError"

RemoveWorldStatus ==
    /\ pc = "ready"
    /\ \E a \in AchInputs :
          /\ RemoveWorldStatusEffect(a)
          /\ op' = "remove_world_status" /\ arg' = a /\ pre' = Snapshot
    /\ UNCHANGED <<pc, renderVars>>

\* ScenarioManager.__getitem__: self.scenarios[item] raises KeyError on an
\* absent key
GetItemEffect(i) ==
    /\ UNCHANGED mgrVars
    /\ err' = IF i \in DOMAIN scenarios THEN "none" ELSE "KeyError"

GetItem ==
    /\ pc = "ready"
    /\ \E i \in MgrIds :
          /\ GetItemEffect(i)
          /\ op' = "__getitem__" /\ arg' = IdArg(i) /\ pre' = Snapshot
    /\ UNCHANGED <<pc, renderVars>>

Next ==
    \/ Construct
    \/ AddScenario
    \/ RemoveScenario
    \/ AddWorldStatus
    \/ RemoveWorldStatus
    \/ GetItem

Spec == Init /\ [][Next]_vars

\* The general tab: a third value named Gold, as its form can build it, and
\* the values world_status is loaded with and the form adds
GoldGlobal == Achievement("Gold", "GLOBAL", "CLOSED")
WorldInputs == AchInputs \cup {GoldGlobal}

\* A file without scenarios whose world_status is any list of up to MaxWS of
\* these values
InitWorld == InitWith(MgrScenarioInputs, {{}}, SeqsUpTo(WorldInputs, MaxWS))

\* The multiple-selection Listbox over the catalog: what it returns is a list
\* of distinct catalog entries
Selections ==
    {x \in SeqsUpTo(achievements, MaxWS) :
        \A i, j \in 1..Len(x) : x[i] = x[j] => i = j}

\* app.save_world_status: the selection is assigned to manager.world_status;
\* then, unless the name field is blank (a = None), the achievement of the
\* form goes through manager.add_world_status.  pre is the manager as
\* add_world_status finds it, after the assignment.
SaveWorldStatus ==
    /\ pc = "ready"
    /\ \E sel \in Selections : \E a \in WorldInputs \cup {None} :
          /\ world_status' = IF a = None THEN sel
                              ELSE AddWorldStatusResult(sel, a)
          /\ op' = IF a = None THEN "save_world_status" ELSE "add_world_status"
          /\ arg' = a /\ err' = "none"
          /\ pre' = [Snapshot EXCEPT !.world_status = sel]
    /\ UNCHANGED <<scenarios, order, achievements, pc, renderVars>>

NextWorld ==
    \/ Construct
    \/ SaveWorldStatus

SpecWorld == InitWorld /\ [][NextWorld]_vars

NextLink ==
    \/ Construct
    \/ Relink

SpecLink == InitLink /\ [][NextLink]_vars

----------------------------------------------------------------------------
(* Tree builders: inputs *)

\* longest achievements / requirements list of a scenario given to the
\* full-graph build
MaxTreeAch == 2
\* largest max_hop given to the bounded build
MaxHop == 1

S4 == <<"4">>
\* an id no scenario of the bounded-build inputs has
S5 == <<"5">>

\* Achievement.__str__: f"{name} ({type.name}) {status.name}", as the pieces
\* of the string
Str(a) == [text |-> <<a.name, " (", a.type, ") ", a.status>>]

\* Scenarios of the loaded file, full-graph specification: S1 or S2, played
\* or not, granting a prefix of <<KeyClosed, GoldClosed, GoldOpen>>,
\* requiring a prefix of <<GoldClosed, KeyClosed, GoldOpen>>, with one of
\* four successor sets.
TreeIds == {S1, S2}
TreeSuccessors == {{}, {S1}, {S2}, {S2, FreeText}}
TreeScenarioInputs ==
    {Scenario(i, s, {}, SubSeq(<<KeyClosed, GoldClosed, GoldOpen>>, 1, a),
              SubSeq(<<GoldClosed, KeyClosed, GoldOpen>>, 1, r), pl) :
        i \in TreeIds, s \in TreeSuccessors, a \in 0..MaxTreeAch,
        r \in 0..MaxTreeAch, pl \in BOOLEAN}

InitTree == InitWith(TreeScenarioInputs, SUBSET TreeIds \ {{}}, {<<>>})

\* Scenarios of the loaded file, bounded-build specification: S1..S4, each
\* either with at most one recorded predecessor (another of the four, or S5,
\* which is not in the file), or granting KeyClosed, or requiring KeyClosed,
\* or requiring the still open KeyOpen.
KeyOpen == Achievement("Key", "GLOBAL", "OPEN")
BfsIds == {S1, S2, S3, S4}
BfsScenarioInputs ==
    {Scenario(i, {}, p, <<>>, <<>>, FALSE) :
        i \in BfsIds, p \in {{}} \cup {{x} : x \in (BfsIds \cup {S5})}}
    \cup {Scenario(i, {}, {}, <<KeyClosed>>, <<>>, FALSE) : i \in BfsIds}
    \cup {Scenario(i, {}, {}, <<>>, <<r>>, FALSE) :
            i \in BfsIds, r \in {KeyClosed, KeyOpen}}

\* The four scenarios in file order S1..S4 (the ids are interchangeable and
\* the root is any of them, so one order stands for all)
InitBfs ==
    /\ scenarios \in {m \in MapsOver(BfsScenarioInputs, BfsIds) :
                        \A i \in BfsIds : i \notin m[i].predecessors}
    /\ order = <<S1, S2, S3, S4>>
    /\ world_status = <<>>
    /\ achievements = {}
    /\ pc = "raw"
    /\ op = "none" /\ arg = None /\ err = "none"
    /\ pre = [scenarios |-> scenarios, order |-> order,
              world_status |-> world_status, achievements |-> {}]
    /\ work = <<>> /\ edges = NoEdges /\ nodes = {} /\ cur = Idle

\* max_hop: None or an int
HopArg(k) == [int |-> k]
MaxHopInputs == {None} \cup {HopArg(k) : k \in 0..MaxHop}

----------------------------------------------------------------------------
(* Full-graph build: render_tree, one step per dict write or skip *)

TreeCursor(i, ph, r, p, todo) ==
    [at |-> "tree", i |-> i, phase |-> ph, r |-> r, p |-> p, todo |-> todo]

\* edges = {} and the start of the loop over self.scenarios.values()
TreeStart ==
    /\ pc = "ready"
    /\ pc' = "tree"
    /\ edges' = NoEdges /\ nodes' = {} /\ work' = <<>>
    /\ cur' = TreeCursor(1, "node", 0, 0, {})
    /\ Call("render_tree", None, "none")
    /\ UNCHANGED mgrVars

\* The <<r, p>> at or after <<r0, p0>>, in loop order, at which requirement r
\* of scenario s is among the achievements of the p-th scenario of the dict
TreeMatches(s, r0, p0) ==
    {rp \in (1..Len(s.requirements)) \X (1..Len(order)) :
        /\ rp[1] > r0 \/ (rp[1] = r0 /\ rp[2] >= p0)
        /\ s.requirements[rp[1]] \in Range(scenarios[order[rp[2]]].achievements)}

FirstMatch(ms) ==
    CHOOSE m \in ms : \A x \in ms : m[1] < x[1] \/ (m[1] = x[1] /\ m[2] <= x[2])

\* Where the loop stands once the requirement loops of scenario i are over:
\* at its successors, or at the next scenario when it has none
TreeAfterRequirements(i) ==
    IF scenarios[order[i]].successors = {}
    THEN TreeCursor(i + 1, "node", 0, 0, {})
    ELSE TreeCursor(i, "succ", 0, 0, scenarios[order[i]].successors)

\* tree.node for the next scenario, or the end of the loop: the edges are
\* handed to tree.edge
TreeNode ==
    /\ pc = "tree" /\ cur.phase = "node"
    /\ IF cur.i > Len(order)
       THEN /\ pc' = "tree_done"
            /\ cur' = Idle
            /\ UNCHANGED nodes
       ELSE /\ pc' = "tree"
            /\ nodes' = nodes \cup {order[cur.i]}
            /\ cur' = IF ~scenarios[order[cur.i]].played
                      THEN TreeCursor(cur.i, "req", 1, 1, {})
                      ELSE TreeAfterRequirements(cur.i)
    /\ UNCHANGED <<mgrVars, callVars, work, edges>>

\* for requirement ...: for pre ...: if requirement in pre.achievements:
\*     edges[(pre.id, scenario.id)] = str(requirement)
\* up to and including the next write, or to the end of both loops
TreeRequirementWrite(s, m) ==
    edges' = (<<order[m[2]], s.id>> :> Str(s.requirements[m[1]])) @@ edges

TreeRequirement ==
    /\ pc = "tree" /\ cur.phase = "req"
    /\ LET s == scenarios[order[cur.i]]
           ms == TreeMatches(s, cur.r, cur.p)
       IN IF ms = {}
          THEN /\ cur' = TreeAfterRequirements(cur.i)
               /\ UNCHANGED edges
          ELSE LET m == FirstMatch(ms)
               IN /\ TreeRequirementWrite(s, m)
                  /\ cur' = IF m[2] < Len(order)
                            THEN TreeCursor(cur.i, "req", m[1], m[2] + 1, {})
                            ELSE TreeCursor(cur.i, "req", m[1] + 1, 1, {})
    /\ UNCHANGED <<mgrVars, callVars, pc, work, nodes>>

\* the successor branch without its "not in edges" test
TreeSuccessorOverwrite(s, t) ==
    edges' = IF IsNumeric(t) THEN (<<s.id, t>> :> None) @@ edges ELSE edges

\* for successor in scenario.successors (a set: any order): a numeric
\* successor gets an unlabeled edge if the pair has no edge yet
TreeSuccessorWrite(s, t) ==
    edges' = IF IsNumeric(t) /\ <<s.id, t>> \notin DOMAIN edges
             THEN (<<s.id, t>> :> None) @@ edges
             ELSE edges

TreeSuccessor ==
    /\ pc = "tree" /\ cur.phase = "succ"
    /\ \E t \in cur.todo :
          /\ TreeSuccessorWrite(scenarios[order[cur.i]], t)
          /\ cur' = IF cur.todo = {t}
                    THEN TreeCursor(cur.i + 1, "node", 0, 0, {})
                    ELSE TreeCursor(cur.i, "succ", 0, 0, cur.todo \ {t})
    /\ UNCHANGED <<mgrVars, callVars, pc, work, nodes>>

NextTree ==
    \/ Construct
    \/ TreeStart
    \/ TreeNode
    \/ TreeRequirement
    \/ TreeSuccessor

SpecTree == InitTree /\ [][NextTree]_vars

----------------------------------------------------------------------------
(* Bounded single-root build: render_scenario_tree, one step per entry of
   the work list *)

\* "if max_hop and hop > max_hop": None and 0 are both falsy
Truthy(mh) == mh # None /\ mh.int # 0
Pruned(mh, hop) == Truthy(mh) /\ hop > mh.int

\* the membership test against the newest entry of the work list only
InWorkNewest(w, i) == w # <<>> /\ w[Len(w)][1] = i

\* any(w[0].id == pre.id for w in work), and the negation
\* all(w[0].id != predecessor_id for w in work)
InWork(w, i) == \E k \in 1..Len(w) : w[k][1] = i

\* for pre in self.scenarios.values(): a scenario not yet in the work list
\* that grants the requirement is appended at hop + 1, with a labelled edge
RECURSIVE ScanGranters(_, _, _, _, _, _)
ScanGranters(scn, o, st, s, hop, req) ==
    IF o = <<>> THEN st
    ELSE LET p == Head(o)
             hit == ~InWork(st.work, p) /\ req \in Range(scn[p].achievements)
             st2 == IF hit
                    THEN [st EXCEPT !.work = Append(@, <<p, hop + 1>>),
                                    !.edges = (<<p, s>> :> Str(req)) @@ @]
                    ELSE st
         IN ScanGranters(scn, Tail(o), st2, s, hop, req)

\* for requirement in scenario.requirements: only CLOSED ones are followed
RECURSIVE ScanRequirements(_, _, _, _, _, _)
ScanRequirements(scn, o, st, s, hop, reqs) ==
    IF reqs = <<>> THEN st
    ELSE ScanRequirements(scn, o,
             IF Head(reqs).status # "CLOSED" THEN st
             ELSE ScanGranters(scn, o, st, s, hop, Head(reqs)),
             s, hop, Tail(reqs))

\* for predecessor_id in scenario.predecessors, in the order po: an unknown
\* id raises; otherwise an unlabeled edge unless the pair has one, and the
\* predecessor is appended at hop + 1 unless it is in the work list
RECURSIVE ScanPredecessors(_, _, _, _, _)
ScanPredecessors(scn, st, s, hop, po) ==
    IF po = <<>> \/ st.err # "none" THEN st
    ELSE LET p == Head(po)
         IN IF p \notin DOMAIN scn
            THEN [st EXCEPT !.err = "ScenarioNotFoundException"]
            ELSE ScanPredecessors(scn,
                     [st EXCEPT
                         !.edges = IF <<p, s>> \in DOMAIN @ THEN @
                                   ELSE (<<p, s>> :> None) @@ @,
                         !.work = IF InWork(@, p) THEN @
                                  ELSE Append(@, <<p, hop + 1>>)],
                     s, hop, Tail(po))

\* the body with the recorded predecessors enqueued one hop too far
ExpandEntryDeeper(scn, o, w, e, s, hop, po) ==
    ScanPredecessors(scn,
        ScanRequirements(scn, o, [work |-> w, edges |-> e, err |-> "none"],
                         s, hop, scn[s].requirements),
        s, hop + 1, po)

\* The body of "for scenario, hop in work" for an entry that is not pruned
ExpandEntry(scn, o, w, e, s, hop, po) ==
    ScanPredecessors(scn,
        ScanRequirements(scn, o, [work |-> w, edges |-> e, err |-> "none"],
                         s, hop, scn[s].requirements),
        s, hop, po)

BfsArg(root, mh) == [scenario_id |-> root, max_hop |-> mh]

\* The head of render_scenario_tree: an unknown root raises; otherwise the
\* work list starts as [(root, 0)]
BfsStart ==
    /\ pc = "ready"
    /\ \E root \in BfsIds \cup {S5} : \E mh \in MaxHopInputs :
          /\ op' = "render_scenario_tree" /\ arg' = BfsArg(root, mh)
          /\ pre' = Snapshot
          /\ IF root \notin DOMAIN scenarios
             THEN /\ err' = "ScenarioNotFoundException"
                  /\ UNCHANGED <<pc, work, cur>>
             ELSE /\ err' = "none"
                  /\ pc' = "bfs"
                  /\ work' = << <<root, 0>> >>
                  /\ cur' = [at |-> "bfs", w |-> 1]
    /\ edges' = NoEdges /\ nodes' = {}
    /\ UNCHANGED mgrVars

\* the pruning test off by one: hop > max_hop + 1
BfsSkipLate(mh, hop) == Truthy(mh) /\ hop > mh.int + 1

\* if max_hop and hop > max_hop: continue
BfsSkipWhen(mh, hop) == Pruned(mh, hop)

BfsSkip ==
    /\ pc = "bfs" /\ cur.w <= Len(work)
    /\ BfsSkipWhen(arg.max_hop, work[cur.w][2])
    /\ cur' = [cur EXCEPT !.w = @ + 1]
    /\ UNCHANGED <<mgrVars, callVars, pc, work, edges, nodes>>

\* tree.node and the two scans for the next entry of the work list; an
\* exception ends the call without a result
BfsExpand ==
    /\ pc = "bfs" /\ cur.w <= Len(work)
    /\ ~BfsSkipWhen(arg.max_hop, work[cur.w][2])
    /\ LET s == work[cur.w][1]
           hop == work[cur.w][2]
       IN \E po \in Perms(scenarios[s].predecessors) :
             LET st == ExpandEntry(scenarios, order, work, edges, s, hop, po)
             IN IF st.err # "none"
                THEN /\ err' = st.err
                     /\ pc' = "ready"
                     /\ work' = <<>> /\ edges' = NoEdges /\ nodes' = {}
                     /\ cur' = Idle
                ELSE /\ work' = st.work /\ edges' = st.edges
                     /\ nodes' = nodes \cup {s}
                     /\ cur' = [cur EXCEPT !.w = @ + 1]
                     /\ UNCHANGED <<pc, err>>
    /\ UNCHANGED <<mgrVars, op, arg, pre>>

\* The work list is exhausted: the edges are handed to tree.edge
BfsFinish ==
    /\ pc = "bfs" /\ cur.w > Len(work)
    /\ pc' = "bfs_done"
    /\ cur' = Idle
    /\ UNCHANGED <<mgrVars, callVars, work, edges, nodes>>

NextBfs ==
    \/ Construct
    \/ BfsStart
    \/ BfsSkip
    \/ BfsExpand
    \/ BfsFinish

SpecBfs == InitBfs /\ [][NextBfs]_vars

\* Scenarios of the loaded file, cyclic-graph specification: S1..S3, each
\* with any set of the three ids as recorded predecessors, granting
\* KeyClosed or nothing, requiring KeyClosed or nothing.
\* Predecessor cycles, grant/require cycles and chains of different lengths
\* to one scenario are all among these graphs.
GraphScenarioInputs ==
    {Scenario(i, {}, p, a, r, FALSE) :
        i \in Ids, p \in SUBSET Ids,
        a \in {<<>>, <<KeyClosed>>}, r \in {<<>>, <<KeyClosed>>}}

\* The three scenarios in file order S1..S3; no scenario is its own recorded
\* predecessor, and S2 requires nothing
InitBfsGraph ==
    /\ scenarios \in {m \in MapsOver(GraphScenarioInputs, Ids) :
                        /\ \A i \in Ids : i \notin m[i].predecessors
                        /\ m[S2].requirements = <<>>}
    /\ order = <<S1, S2, S3>>
    /\ world_status = <<>>
    /\ achievements = {}
    /\ pc = "raw"
    /\ op = "none" /\ arg = None /\ err = "none"
    /\ pre = [scenarios |-> scenarios, order |-> order,
              world_status |-> world_status, achievements |-> {}]
    /\ work = <<>> /\ edges = NoEdges /\ nodes = {} /\ cur = Idle

\* The for loop over the work list runs on by itself once the call has
\* started: each of its steps is taken when it is the one enabled.
BfsLoop == BfsSkip \/ BfsExpand \/ BfsFinish

SpecBfsGraph == InitBfsGraph /\ [][NextBfs]_vars /\ WF_vars(BfsLoop)

\* Scenarios of the loaded file, session specification: S1 or S2, naming up
\* to MaxSucc of S1, S2, S3 as successors, nothing else set.
SessionScenarioInputs ==
    {s \in LinkScenarioInputs : s.id \in MgrIds /\ FreeText \notin s.successors}

InitSession == InitWith(SessionScenarioInputs, SUBSET MgrIds, {<<>>})

\* The session of the application: the file is loaded and linked, scenarios
\* are saved and deleted, and the bounded build is asked for.
NextSession ==
    \/ Construct
    \/ AddScenario
    \/ RemoveScenario
    \/ BfsStart
    \/ BfsSkip
    \/ BfsExpand
    \/ BfsFinish

SpecSession == InitSession /\ [][NextSession]_vars

----------------------------------------------------------------------------
(* Claims about the linker *)

Current ==
    [scenarios |-> scenarios, order |-> order, world_status |-> world_status,
     achievements |-> achievements]

\* C1: once the constructor has linked the loaded map, every numeric
\* successor id S of every scenario A names a scenario of the manager, and
\* A.id is in S.predecessors.
C1_LinkComplete ==
    op = "__init__" =>
        \A a \in DOMAIN scenarios : \A s \in scenarios[a].successors :
            IsNumeric(s) =>
                /\ s \in DOMAIN scenarios
                /\ a \in scenarios[s].predecessors

\* C2: linking a second time, on the result of a link, changes no scenario's
\* predecessors and not the set of scenario ids.
C2_LinkIdempotent ==
    op = "relink" =>
        /\ DOMAIN scenarios = DOMAIN pre.scenarios
        /\ \A i \in DOMAIN scenarios :
              scenarios[i].predecessors = pre.scenarios[i].predecessors

----------------------------------------------------------------------------
(* Claims about the manager's operations *)

UniqueByName(ws) ==
    \A i, j \in 1..Len(ws) : ws[i].name = ws[j].name => i = j

\* C3: from a world_status with at most one entry per name, add_world_status
\* and remove_world_status leave at most one entry per name, and after
\* add_world_status(a) the one entry named a.name is a.
C3_UniqueByName ==
    (op \in {"add_world_status", "remove_world_status"}
        /\ UniqueByName(pre.world_status)) =>
        /\ UniqueByName(world_status)
        /\ op = "add_world_status" =>
              /\ arg \in Range(world_status)
              /\ \A e \in Range(world_status) : e.name = arg.name => e = arg

\* Gold OPEN is in a world_status with one entry per name, Gold CLOSED is
\* added, and Gold CLOSED has taken its place beside the Key entry.
C3_Witness ==
    /\ op = "add_world_status" /\ arg = GoldClosed
    /\ pre.world_status = <<GoldOpen, KeyClosed>>
    /\ world_status = <<KeyClosed, GoldClosed>>

\* The achievements the current scenarios grant or require, and world_status
InUse ==
    {a \in (achievements \cup pre.achievements) \cup AchInputs :
        \/ \E i \in DOMAIN scenarios :
              \/ \E k \in 1..Len(scenarios[i].achievements) :
                    scenarios[i].achievements[k] = a
              \/ \E k \in 1..Len(scenarios[i].requirements) :
                    scenarios[i].requirements[k] = a
        \/ \E k \in 1..Len(world_status) : world_status[k] = a}

\* C4: in every state of a constructed manager, the catalog contains every
\* achievement a current scenario grants or requires and every entry of
\* world_status.
C4_CatalogComplete ==
    pc = "ready" => InUse \subseteq achievements

\* C6: a manager operation that fails (remove_scenario or lookup of an absent
\* id, remove_world_status of an absent value) fails with
\* ScenarioNotFoundException and changes nothing.
C6_NotFound ==
    (op \in {"remove_scenario", "__getitem__", "remove_world_status"}
        /\ err # "none") =>
        /\ err = "ScenarioNotFoundException"
        /\ Current = pre

\* C7: remove_scenario of a present id removes that scenario only, leaves
\* world_status alone, and leaves as the catalog exactly what the remaining
\* scenarios grant or require and world_status holds.
C7_RemoveRecomputes ==
    (op = "remove_scenario" /\ err = "none") =>
        /\ arg.key \in DOMAIN pre.scenarios
        /\ DOMAIN scenarios = DOMAIN pre.scenarios \ {arg.key}
        /\ \A i \in DOMAIN scenarios : scenarios[i] = pre.scenarios[i]
        /\ world_status = pre.world_status
        /\ achievements = InUse

\* A scenario was removed from a manager whose catalog held an entry that
\* nothing used any more (left by an earlier add_scenario), scenarios remain,
\* and the entry is gone.
C7_Witness ==
    /\ op = "remove_scenario" /\ err = "none"
    /\ DOMAIN scenarios # {}
    /\ \E a \in pre.achievements :
          /\ a \notin AllAchievements(pre.scenarios, pre.world_status)
          /\ a \notin achievements

\* C8: add_scenario(None) changes nothing of the manager: not the map, not a
\* scenario, not world_status, not the catalog.
C8_AddNoneNoOp ==
    (op = "add_scenario" /\ arg = None) => (Current = pre /\ err = "none")

\* add_scenario(None) on a manager that holds scenarios and a catalog entry
\* nothing uses any more.
C8_Witness ==
    /\ op = "add_scenario" /\ arg = None
    /\ DOMAIN scenarios # {}
    /\ achievements # AllAchievements(scenarios, world_status)

\* C12: whatever world_status holds before, entries sharing a name included,
\* add_world_status(a) with a not in the list leaves a as the one entry named
\* a.name, and the entries with other names as they were, in their order.
C12_EvictsAll ==
    (op = "add_world_status" /\ arg \notin Range(pre.world_status)) =>
        /\ \A k \in 1..Len(world_status) :
              world_status[k].name = arg.name =>
                  (world_status[k] = arg /\ k = Len(world_status))
        /\ world_status[Len(world_status)] = arg
        /\ SelectSeq(world_status, LAMBDA e : e.name # arg.name)
              = SelectSeq(pre.world_status, LAMBDA e : e.name # arg.name)

----------------------------------------------------------------------------
(* Claims about the full-graph build *)

InTreeBuild == pc = "tree" /\ pc' \in {"tree", "tree_done"}

\* C9 as stated: in the full-graph build the first label recorded for a pair
\* (from, to) wins: no later step of the build changes the label of a
\* recorded edge.
C9_FirstLabelWins ==
    [][InTreeBuild =>
        \A e \in DOMAIN edges : e \in DOMAIN edges' /\ edges'[e] = edges[e]]_vars

\* C9 as amended: a recorded edge stays recorded; the only step that changes
\* the label of a recorded edge is a requirement write for the scenario being
\* visited, which sets the label to the string of a requirement of that
\* scenario granted by the edge's source; a successor step never changes a
\* recorded edge, so a label never goes back to None.
C9_OnlyRequirementsOverwrite ==
    [][InTreeBuild =>
        \A e \in DOMAIN edges :
            /\ e \in DOMAIN edges'
            /\ edges'[e] # edges[e] =>
                  /\ cur.phase = "req"
                  /\ e[2] = order[cur.i]
                  /\ \E r \in Range(scenarios[e[2]].requirements) :
                        /\ r \in Range(scenarios[e[1]].achievements)
                        /\ edges'[e] = Str(r)]_vars

\* S1, visited first, names S2 as successor and grants both requirements of
\* the unplayed S2: the edge S1 -> S2 was recorded without a label, then
\* labelled Gold, and ends labelled with the last requirement, Key.
C9_Witness ==
    /\ pc = "tree_done"
    /\ order = <<S1, S2>>
    /\ S2 \in scenarios[S1].successors
    /\ ~scenarios[S2].played
    /\ scenarios[S2].requirements = <<GoldClosed, KeyClosed>>
    /\ scenarios[S1].achievements = <<KeyClosed, GoldClosed>>
    /\ edges[<<S1, S2>>] = Str(KeyClosed)

----------------------------------------------------------------------------
(* Claims about the bounded single-root build *)

BfsDone == pc = "bfs_done"
Root == arg.scenario_id
WorkIds == {work[j][1] : j \in 1..Len(work)}

\* The scenarios one step from s: its recorded predecessors, and the
\* scenarios that grant a CLOSED requirement of s
Sources(s) ==
    (scenarios[s].predecessors \cap DOMAIN scenarios)
    \cup {p \in DOMAIN scenarios :
            \E r \in Range(scenarios[s].requirements) :
                r.status = "CLOSED" /\ r \in Range(scenarios[p].achievements)}

\* The length of the shortest chain of such steps from the scenarios of
\* frontier, which are d steps from the root, to t; -1 if there is none
RECURSIVE ChainLength(_, _, _, _)
ChainLength(seen, frontier, d, t) ==
    IF t \in frontier THEN d
    ELSE IF frontier = {} THEN -1
    ELSE LET further == UNION {Sources(s) : s \in frontier} \ seen
         IN ChainLength(seen \cup further, further, d + 1, t)

\* C14: at every step of the bounded build the hops of the work list do not
\* decrease along the list, and the hop of every entry is the length of the
\* shortest chain from the root to its scenario over recorded predecessors
\* and granters of CLOSED requirements.
C14_ShortestHops ==
    pc \in {"bfs", "bfs_done"} =>
        /\ \A j, k \in 1..Len(work) : j <= k => work[j][2] <= work[k][2]
        /\ \A j \in 1..Len(work) :
              work[j][2] = ChainLength({Root}, {Root}, 0, work[j][1])

\* A build with max_hop = 1 from S1 has returned; S3 grants the requirement
\* of S1 (one step) and is also the recorded predecessor of S1's recorded
\* predecessor S2 (two steps): S3 is in the list at hop 1 and was expanded.
C14_Witness ==
    /\ BfsDone /\ Root = S1 /\ arg.max_hop = HopArg(1)
    /\ scenarios[S1].predecessors = {S2}
    /\ scenarios[S2].predecessors = {S3}
    /\ scenarios[S1].requirements = <<KeyClosed>>
    /\ scenarios[S3].achievements = <<KeyClosed>>
    /\ scenarios[S2].achievements = <<>>
    /\ work = << <<S1, 0>>, <<S3, 1>>, <<S2, 1>> >>
    /\ S3 \in nodes

\* C13: once the manager is constructed, and after any add_scenario and
\* remove_scenario, every id in a scenario's predecessors is the id of a
\* scenario of the manager, and a bounded build from a root the manager has
\* does not fail with ScenarioNotFoundException.
C13_PredecessorsExist ==
    pc # "raw" =>
        /\ \A i \in DOMAIN scenarios :
              scenarios[i].predecessors \subseteq DOMAIN scenarios
        /\ (op = "render_scenario_tree" /\ Root \in DOMAIN scenarios) =>
              err = "none"

\* C11: the bounded build visits each scenario at most once and ends: while
\* it runs and when it has returned, no scenario id is twice in the work
\* list, so the list is never longer than the number of scenarios, and a
\* build that has started stops (it returns or raises), whatever the cycles
\* of the graph and also with max_hop unset.
C11_Terminates ==
    /\ [](pc \in {"bfs", "bfs_done"} =>
            /\ \A j, k \in 1..Len(work) : work[j][1] = work[k][1] => j = k
            /\ Len(work) <= Cardinality(DOMAIN scenarios))
    /\ (pc = "bfs" ~> pc # "bfs")

\* A build without max_hop returned on a graph in which S1 and S2 are each
\* other's recorded predecessor and S1 and S3 each grant what the other
\* requires; all three scenarios are in the work list.
C11_Witness ==
    /\ BfsDone /\ arg.max_hop = None
    /\ S2 \in scenarios[S1].predecessors /\ S1 \in scenarios[S2].predecessors
    /\ scenarios[S1].requirements = <<KeyClosed>>
    /\ scenarios[S1].achievements = <<KeyClosed>>
    /\ scenarios[S3].requirements = <<KeyClosed>>
    /\ scenarios[S3].achievements = <<KeyClosed>>
    /\ Len(work) = 3

\* C5: a build with max_hop = 0 that returns has expanded the root only: the
\* root is the one node emitted and every edge recorded points at the root.
C5_ZeroHopsOnlyRoot ==
    (BfsDone /\ arg.max_hop = HopArg(0)) =>
        /\ nodes = {Root}
        /\ \A e \in DOMAIN edges : e[2] = Root

BoundedBy(k) == BfsDone /\ arg.max_hop # None /\ arg.max_hop.int = k

\* What C10 says of a scenario s enqueued at hop k + 1 apart from its being
\* a node: the edge that enqueued it, from s to an entry at hop k, is
\* recorded, and s was not scanned, so no edge points at s.
PrunedEntry(s, k) ==
    /\ \E e \in DOMAIN edges :
          e[1] = s /\ \E j \in 1..Len(work) : work[j] = <<e[2], k>>
    /\ \A e \in DOMAIN edges : e[2] # s

\* C10 as stated: with max_hop = k >= 1 no entry of the work list is beyond
\* hop k + 1, and an entry at hop k + 1 is a node of the result, with the
\* edge that enqueued it, and is not expanded.
C10_PrunedStillNode ==
    \A k \in 1..(MaxHop + 1) : BoundedBy(k) =>
        \A j \in 1..Len(work) :
            /\ work[j][2] <= k + 1
            /\ work[j][2] = k + 1 =>
                  (work[j][1] \in nodes /\ PrunedEntry(work[j][1], k))

\* C10 as amended: with max_hop = k >= 1 no entry of the work list is beyond
\* hop k + 1, and an entry at hop k + 1 is in the result only as the source
\* of the edge that enqueued it: tree.node is not called for it and it is
\* not expanded.
C10_PrunedOnlyEdgeSource ==
    \A k \in 1..(MaxHop + 1) : BoundedBy(k) =>
        \A j \in 1..Len(work) :
            /\ work[j][2] <= k + 1
            /\ work[j][2] = k + 1 =>
                  (work[j][1] \notin nodes /\ PrunedEntry(work[j][1], k))

\* A build with max_hop = 1 returned with a scenario at hop 2 whose recorded
\* predecessor is a scenario the build never reached.
C10_Witness ==
    /\ BoundedBy(1)
    /\ \E j \in 1..Len(work) :
          /\ work[j][2] = 2
          /\ (scenarios[work[j][1]].predecessors \cap DOMAIN scenarios)
                \ WorkIds # {}

====
